---- MODULE Spec2Model ----
(***************************************************************************)
(* A model of qa.py, the test-orchestration engine: run_test_cases and its *)
(* three drivers (single, thread, process), the skip decision              *)
(* _is_skip_test_case, the per-test state machine _run_test_case (with the *)
(* semantics of contextlib.nested for the fixtures) and the TestResult     *)
(* classification.                                                         *)
(*                                                                         *)
(* Python values are modelled as follows.  None is the string "None".  A   *)
(* value a plugin hook returns is a record [type, text] holding its Python *)
(* type and its text form.  An exception is named by its class: "Failure"  *)
(* (qa.Failure), "Error" (any other subclass of Exception raised by user   *)
(* code) and "TypeError" (raised by iterating over None).  Exceptions that *)
(* are not subclasses of Exception (SystemExit, KeyboardInterrupt) and     *)
(* fixtures whose __exit__ suppresses the exception are not modelled.      *)
(*                                                                         *)
(* Four specifications share the variables.  Spec is a call of             *)
(* run_test_cases with a list of test cases, under each driver.            *)
(* RegistrySpec is the registration of test cases while the test modules   *)
(* are imported, followed by main() running the registry.  ExpectSpec is   *)
(* the expect_* calls and expect_raises blocks of a test body, ContextSpec *)
(* the writes and deletes of a test body on a Context.                     *)
(***************************************************************************)
EXTENDS Integers, Sequences, FiniteSets, TLC

\* ------------------------------------------------------------------ bounds
MaxTests == 2
MaxWorkers == 2
MaxPlugins == 2
MaxRequires == 2
\* most fixtures one execution enters (the plugins' and the test's own)
MaxFixtures == 3
\* the largest int an expect_* function is called with
MaxInt == 2

\* number of fixtures one plugin's extra_test_case_requirements may return
ExtraChoices == {0, 1}

\* ------------------------------------------------------- program constants
RUN_SINGLETHREAD == "single"
RUN_MULTITHREAD == "thread"
RUN_MULTIPROCESS == "process"
RUN_MODES == {RUN_SINGLETHREAD, RUN_MULTITHREAD, RUN_MULTIPROCESS}
DEFAULT_NUM_WORKERS == 10

None == "None"

\* ------------------------------------------------------------ Python values
PyTrue == [type |-> "bool", text |-> "True"]
PyFalse == [type |-> "bool", text |-> "False"]
PyNone == [type |-> "NoneType", text |-> "None"]
PyStr == [type |-> "str", text |-> "not today"]

\* what a plugin's should_run_test_case may return
ShouldRunValues == {PyTrue, PyFalse, PyNone, PyStr}

\* unicode(value): the text form of a value
unicode(value) == value.text

\* exceptions a fixture or a test body may raise
Raisable == {"Failure", "Error"}

\* ------------------------------------------------------------------- state
VARIABLES
    mode,          \* run_test_cases' mode argument
    num_workers,   \* run_test_cases' num_workers argument: <<>> (None) or <<n>>
    plugins,       \* run_test_cases' plugins argument: [is_none, list]
    test_cases,    \* run_test_cases' test_cases argument, a sequence of TestCase
    engine_pc,     \* where the driver's generator stands
    idx,           \* number of test cases the driver's for loop has taken
    running,       \* _run_test_cases_multithread: the counter running
    running_procs, \* _run_test_cases_multiprocess: the keys of the dict running
    queue,         \* the completion queue: entries [tag, result]
    results,       \* the results yielded to the consumer, in order
    should_run_log,\* the latest skip decision: [test, answers], the values the
                   \* plugins' should_run_test_case returned for that test
    exec,          \* per test: the frame of its _run_test_case call
    heap,          \* the Context objects: the entries of object k
    all_test_cases,\* _qa_globals.all_test_cases, the registry
    global_plugins,\* _qa_globals.plugins, the process-wide plugin list
    registered,    \* the test cases the registering calls were given, in call order
    call,          \* the latest call of a library function: [fn, args, out]
    context        \* a Context a test body works on: its entries

vars == <<mode, num_workers, plugins, test_cases, engine_pc, idx, running,
          running_procs, queue, results, should_run_log, exec, heap,
          all_test_cases, global_plugins, registered, call, context>>

config == <<mode, num_workers, plugins, test_cases>>

\* what the library functions work on and a run leaves alone
lib == <<all_test_cases, global_plugins, registered, call, context>>

Tests == 1..MaxTests

\* --------------------------------------------------------------- TestCase
TestCase(skip, skip_reason, requires) ==
    [skip |-> skip, skip_reason |-> skip_reason, requires |-> requires]

TestCaseDomain ==
    {TestCase(TRUE, "Should be skipped", 0)}
    \cup {TestCase(FALSE, "", n) : n \in {0, MaxRequires}}

\* the plugins argument: None, or a list of plugins (named by their position)
PluginsNone == [is_none |-> TRUE, list |-> <<>>]
PluginList(n) == [is_none |-> FALSE, list |-> [p \in 1..n |-> p]]
PluginsDomain == {PluginsNone} \cup {PluginList(n) : n \in 0..MaxPlugins}

\* the num_workers argument: None (<<>>) or a number (<<n>>)
NumWorkersDomain == {<<>>} \cup {<<n>> : n \in 0..MaxWorkers}

\* ------------------------------------------------------------- TestResult
TestResult(name) ==
    [group |-> "tests", name |-> name, description |-> "doc",
     skipped |-> FALSE, skipped_reason |-> "",
     error |-> None, error_msg |-> "", failure |-> None, failure_msg |-> "",
     started_at |-> None, ended_at |-> None]

is_error(r) == r.error # None \/ r.error_msg # ""

is_failure(r) == r.failure # None \/ r.failure_msg # ""

\* mutant: is_success reads the payloads only, not the texts
is_success_payloads_only(r) ==
    /\ ~r.skipped
    /\ r.error = None
    /\ r.failure = None

is_success(r) ==
    /\ ~r.skipped
    /\ r.error = None
    /\ r.error_msg = ""
    /\ r.failure = None
    /\ r.failure_msg = ""

status(r) ==
    IF is_error(r) THEN "crashed"
    ELSE IF is_failure(r) THEN "failed"
    ELSE IF r.skipped THEN "skipped"
    ELSE "ok"

\* ''.join(traceback.format_exception(*exc_info)): never the empty string
format_exception(e) ==
    CASE e = "Failure" -> "Traceback: Failure"
      [] e = "Error" -> "Traceback: Error"
      [] e = "TypeError" -> "Traceback: TypeError"
      [] OTHER -> "Traceback"

\* mutant: __getstate__ keeps the texts it finds and formats no payload
getstate_formats_nothing(r) ==
    [group |-> r.group,
     name |-> r.name,
     description |-> r.description,
     skipped |-> r.skipped,
     skipped_reason |-> r.skipped_reason,
     error |-> None,
     error_msg |-> r.error_msg,
     failure |-> None,
     failure_msg |-> r.failure_msg,
     started_at |-> r.started_at,
     ended_at |-> r.ended_at]

\* __getstate__: the dict of lines 245-255
getstate(r) ==
    LET error_msg ==
            IF r.error_msg = ""
            THEN (IF r.error # None THEN format_exception(r.error) ELSE "")
            ELSE r.error_msg
        failure_msg ==
            IF r.failure_msg = ""
            THEN (IF r.failure # None THEN format_exception(r.failure) ELSE "")
            ELSE r.failure_msg
    IN  [group |-> r.group,
         name |-> r.name,
         description |-> r.description,
         skipped |-> r.skipped,
         skipped_reason |-> r.skipped_reason,
         error |-> None,
         error_msg |-> error_msg,
         failure |-> None,
         failure_msg |-> failure_msg,
         started_at |-> r.started_at,
         ended_at |-> r.ended_at]

\* dict.update: the entries of other replace or extend those of d
update(d, other) ==
    [key \in DOMAIN d \cup DOMAIN other |->
        IF key \in DOMAIN other THEN other[key] ELSE d[key]]

\* __setstate__ updates the __dict__ of the new, empty object from the state
setstate(state) == update(<<>>, state)

\* a result as it arrives through a multiprocessing.Queue
pickled(r) == setstate(getstate(r))

\* ------------------------------------------------------ _is_skip_test_case
\* The loop over the plugins: answers[k] is what plugin k's
\* should_run_test_case returns, st the locals [skip, skip_reason] and the
\* number of plugins consulted so far.
RECURSIVE should_run_loop(_, _, _)
should_run_loop(answers, k, st) ==
    IF k > Len(answers) THEN st
    ELSE LET should_run == answers[k]
             asked == [st EXCEPT !.consulted = k]
         IN  IF should_run = PyTrue
             THEN should_run_loop(answers, k + 1, asked)
             ELSE IF should_run = PyFalse
             THEN should_run_loop(answers, k + 1,
                      [asked EXCEPT !.skip = TRUE, !.skip_reason = ""])
             ELSE [asked EXCEPT !.skip = TRUE, !.skip_reason = unicode(should_run)]

\* mutant: the static skip flag is not read
skip_locals_flag_ignored(test_case, a_plugins, answers) ==
    LET st0 == [skip |-> FALSE, skip_reason |-> test_case.skip_reason,
                consulted |-> 0]
    IN  IF ~a_plugins.is_none
        THEN should_run_loop(answers, 1, st0)
        ELSE st0

\* the locals of _is_skip_test_case when it reaches "if skip:"
skip_locals(test_case, a_plugins, answers) ==
    LET st0 == [skip |-> test_case.skip, skip_reason |-> test_case.skip_reason,
                consulted |-> 0]
    IN  IF ~test_case.skip /\ ~a_plugins.is_none
        THEN should_run_loop(answers, 1, st0)
        ELSE st0

\* the reason the skipped TestResult is built with
skip_result_reason(test_case, st) == test_case.skip_reason

\* _is_skip_test_case: <<>> for None, else <<the skipped TestResult>>
is_skip_test_case(name, test_case, a_plugins, answers) ==
    LET st == skip_locals(test_case, a_plugins, answers)
    IN  IF st.skip
        THEN << [TestResult(name) EXCEPT
                   !.skipped = TRUE,
                   !.skipped_reason = skip_result_reason(test_case, st)] >>
        ELSE <<>>

\* --------------------------------------------------- frame of _run_test_case
IdleExec ==
    [pc |-> "idle", has_ctx |-> FALSE, ctx |-> 0, reqs |-> <<>>,
     entered |-> <<>>, k |-> 0, exc |-> None, body |-> None, raised |-> {},
     log |-> <<>>, result |-> <<>>, will_saw |-> <<>>, body_saw |-> {},
     did_saw |-> <<>>, setup_exc |-> None]

\* a frame whose call has returned and whose result has been handed over
ExitedExec == [IdleExec EXCEPT !.pc = "exited"]

Event(ev, n) == [ev |-> ev, n |-> n]

\* ----------------------------------------------------------------- Context
\* An entry of a Context.  In a run fixture n of a test writes the key n, the
\* body the key 0, and the value written names the execution that wrote it.
Entry(key, value) == [key |-> key, value |-> value]

\* ctx[key] = value on a Context with the entries d
setitem(d, key, value) == {x \in d : x.key # key} \cup {Entry(key, value)}

\* del ctx[key]
delitem(d, key) == {x \in d : x.key # key}

\* mutant: every call uses one and the same Context object
new_context_shared(i) == 1

\* Context() in the i-th call of _run_test_case: a new object, object i
new_context(i) == i

NumPlugins == Len(plugins.list)

\* the worker count the pool drivers use
NumWorkers == IF num_workers = <<>> THEN DEFAULT_NUM_WORKERS ELSE num_workers[1]

\* The executions of one run share nothing but the plugins and the queue, so
\* the runs are taken from two families: runs of at most one test case with
\* every plugin list and every fixture list, and runs of several test cases
\* with at most one plugin, whose extra requirements are then the only
\* fixtures.
SmallCases ==
    /\ Len(plugins.list) <= 1
    /\ \A i \in 1..Len(test_cases) : test_cases[i].requires = 0

\* -------------------------------------------------------------------- Init
\* no library function has been called
NoCall ==
    [fn |-> "", args |-> <<>>, block |-> "", key |-> "", out |-> "", msg |-> <<>>,
     plugin |-> 0]

\* the library's state when the module qa has been imported
LibInit ==
    /\ all_test_cases = <<>>
    /\ global_plugins = <<>>
    /\ registered = <<>>
    /\ call = NoCall
    /\ context = {}

\* the state of a run before its driver's first step
RunInit ==
    /\ idx = 0
    /\ running = 0
    /\ running_procs = {}
    /\ queue = <<>>
    /\ results = <<>>
    /\ should_run_log = [test |-> 0, answers |-> <<>>]
    /\ exec = [i \in Tests |-> IdleExec]
    /\ heap = [k \in Tests |-> {}]

\* run_test_cases is called with a list of test cases
Init ==
    /\ mode \in RUN_MODES
    /\ num_workers \in NumWorkersDomain
    /\ mode = RUN_SINGLETHREAD => num_workers = <<>>
    /\ plugins \in PluginsDomain
    /\ \E n \in 0..MaxTests : test_cases \in [1..n -> TestCaseDomain]
    /\ Len(test_cases) > 1 => SmallCases
    /\ engine_pc = "loop"
    /\ RunInit
    /\ LibInit

\* ------------------------------------------------------------- the drivers
\* The for loop takes the next test case and decides whether to skip it; a
\* skipped test's result is yielded at once.
NextTestCase(answers) ==
    /\ engine_pc = "loop"
    /\ idx < Len(test_cases)
    /\ LET i == idx + 1
           st == skip_locals(test_cases[i], plugins, answers)
           skip_test_result == is_skip_test_case(i, test_cases[i], plugins, answers)
       IN  /\ idx' = i
           /\ should_run_log' = [test |-> i, answers |-> SubSeq(answers, 1, st.consulted)]
           /\ IF skip_test_result # <<>>
              THEN /\ results' = Append(results, skip_test_result[1])
                   /\ engine_pc' = "loop"
              ELSE /\ results' = results
                   /\ engine_pc' = "admit"
    /\ UNCHANGED <<config, lib, heap, running, running_procs, queue, exec>>

\* the for loop is exhausted
LoopEnd ==
    /\ engine_pc = "loop"
    /\ idx = Len(test_cases)
    /\ engine_pc' = IF mode = RUN_MULTIPROCESS THEN "while_running" ELSE "done"
    /\ UNCHANGED <<config, lib, heap, idx, running, running_procs, queue, results,
                   should_run_log, exec>>

\* _run_test_cases_singlethread calls _run_test_case
SingleCall ==
    /\ mode = RUN_SINGLETHREAD
    /\ engine_pc = "admit"
    /\ exec' = [exec EXCEPT ![idx].pc = "start"]
    /\ engine_pc' = "call"
    /\ UNCHANGED <<config, lib, heap, idx, running, running_procs, queue, results, should_run_log>>

\* _run_test_case returns and its result is yielded, or its exception leaves
\* the generator
SingleReturn ==
    /\ mode = RUN_SINGLETHREAD
    /\ engine_pc = "call"
    /\ exec[idx].pc \in {"returned", "escaped"}
    /\ IF exec[idx].pc = "returned"
       THEN /\ results' = Append(results, exec[idx].result[1])
            /\ engine_pc' = "loop"
       ELSE /\ results' = results
            /\ engine_pc' = "raised"
    /\ exec' = [exec EXCEPT ![idx] = ExitedExec]
    /\ UNCHANGED <<config, lib, heap, idx, running, running_procs, queue, should_run_log>>

\* _run_test_cases_multithread, lines 445-451: wait when running >= num_workers,
\* else start the thread
ThreadAdmit ==
    /\ mode = RUN_MULTITHREAD
    /\ engine_pc = "admit"
    /\ IF running >= NumWorkers
       THEN /\ engine_pc' = "get_full"
            /\ UNCHANGED <<running, exec>>
       ELSE /\ exec' = [exec EXCEPT ![idx].pc = "start"]
            /\ running' = running + 1
            /\ engine_pc' = "drain"
    /\ UNCHANGED <<config, lib, heap, idx, running_procs, queue, results, should_run_log>>

\* queue.get() returns in _run_test_cases_multithread: at line 446 the next
\* statement yields the undefined name test_result (NameError), at line 453
\* the result is yielded
ThreadGet ==
    /\ mode = RUN_MULTITHREAD
    /\ engine_pc \in {"get_full", "drain"}
    /\ engine_pc = "drain" => running > 0
    /\ queue # <<>>
    /\ queue' = Tail(queue)
    /\ IF engine_pc = "get_full"
       THEN /\ engine_pc' = "raised"
            /\ UNCHANGED <<results, running>>
       ELSE /\ results' = Append(results, Head(queue).result)
            /\ running' = running - 1
            /\ engine_pc' = "drain"
    /\ UNCHANGED <<config, lib, heap, idx, running_procs, should_run_log, exec>>

\* the while loop of line 452 ends
ThreadDrained ==
    /\ mode = RUN_MULTITHREAD
    /\ engine_pc = "drain"
    /\ running = 0
    /\ engine_pc' = "loop"
    /\ UNCHANGED <<config, lib, heap, idx, running, running_procs, queue, results,
                   should_run_log, exec>>

\* _run_test_cases_multiprocess, lines 474-476: start the process
ProcessAdmit ==
    /\ mode = RUN_MULTIPROCESS
    /\ engine_pc = "admit"
    /\ exec' = [exec EXCEPT ![idx].pc = "start"]
    /\ running_procs' = running_procs \cup {idx}
    /\ engine_pc' = "while_full"
    /\ UNCHANGED <<config, lib, heap, idx, running, queue, results, should_run_log>>

\* mutant: the while loop of line 477 lets num_workers + 1 processes run
process_waits_above ==
    IF engine_pc = "while_full"
    THEN Cardinality(running_procs) > NumWorkers
    ELSE running_procs # {}

\* the condition of the while loop the driver stands at
process_waits ==
    IF engine_pc = "while_full"
    THEN Cardinality(running_procs) >= NumWorkers
    ELSE running_procs # {}

\* mutant: the driver takes the completion that was put last
ProcessGet_newest ==
    /\ mode = RUN_MULTIPROCESS
    /\ engine_pc \in {"while_full", "while_running"}
    /\ process_waits
    /\ queue # <<>>
    /\ queue' = SubSeq(queue, 1, Len(queue) - 1)
    /\ results' = Append(results, queue[Len(queue)].result)
    /\ running_procs' = running_procs \ {queue[Len(queue)].tag}
    /\ UNCHANGED <<config, lib, heap, engine_pc, idx, running, should_run_log, exec>>

\* queue.get() returns in _run_test_cases_multiprocess (lines 478-481 and
\* 484-487): yield the result, join and forget the process
ProcessGet ==
    /\ mode = RUN_MULTIPROCESS
    /\ engine_pc \in {"while_full", "while_running"}
    /\ process_waits
    /\ queue # <<>>
    /\ queue' = Tail(queue)
    /\ results' = Append(results, Head(queue).result)
    /\ running_procs' = running_procs \ {Head(queue).tag}
    /\ UNCHANGED <<config, lib, heap, engine_pc, idx, running, should_run_log, exec>>

\* a while loop of _run_test_cases_multiprocess ends
ProcessWhileEnd ==
    /\ mode = RUN_MULTIPROCESS
    /\ engine_pc \in {"while_full", "while_running"}
    /\ ~process_waits
    /\ engine_pc' = IF engine_pc = "while_full" THEN "loop" ELSE "done"
    /\ UNCHANGED <<config, lib, heap, idx, running, running_procs, queue, results,
                   should_run_log, exec>>

\* ---------------------------------------------------------- _run_test_case
Fixture(src, p, j) == [src |-> src, p |-> p, j |-> j]

\* the requirement factories the plugins add, in the order of the loop of
\* lines 518-520: extras[p] is the number plugin p returns
RECURSIVE plugin_requirements(_, _)
plugin_requirements(extras, p) ==
    IF p > Len(extras) THEN <<>>
    ELSE [j \in 1..extras[p] |-> Fixture("plugin", p, j)]
         \o plugin_requirements(extras, p + 1)

\* the list requirements after line 521
requirements(extras, test_case) ==
    plugin_requirements(extras, 1)
    \o [j \in 1..test_case.requires |-> Fixture("own", 0, j)]

\* mutant: an exception leaves the with statement without any exit
unwind_pc_no_exit(entered) == "except"

\* where an exception raised inside "with contextlib.nested(...)" goes: through
\* the exits of the entered managers, or straight to the except clauses
unwind_pc(entered) == IF entered = <<>> THEN "except" ELSE "exit"

\* mutant: the managers are exited in the order they were entered
exit_next_first(entered) == 1

\* the manager contextlib.nested exits next: the last one entered
exit_next(entered) == Len(entered)

\* what follows the last fixture's setup
after_enter_pc == IF NumPlugins > 0 THEN "will" ELSE "body"

\* mutant: the did_run_test_case hooks are never called
after_finalize_pc_no_hooks == "returned"

\* what follows line 534
after_finalize_pc == IF ~plugins.is_none /\ NumPlugins > 0 THEN "did" ELSE "returned"

\* A frame between the first statement of _run_test_case and the hand-over of
\* its result.
in_call(e) ==
    e.pc \in {"enter", "will", "body", "exit", "except", "did", "returned", "escaped"}

\* The workers' calls run concurrently.  In the runs without plugins their
\* statements interleave freely.  In the runs with plugins a started worker
\* begins its call when no other worker is inside one: the statements of one
\* call read and write that call's locals only (its Context, its TestResult,
\* its managers), so interleaving them with another call's statements reaches
\* no other outcome than running the calls one after the other, in any order.
\* The driver's own steps interleave freely with the workers'.
may_run(i) == NumPlugins = 0 \/ \A j \in Tests \ {i} : ~in_call(exec[j])

\* lines 510-521: the Context, the TestResult and the requirements; with
\* plugins None the loop of line 518 raises TypeError
RunStart(i, extras) ==
    /\ exec[i].pc = "start"
    /\ may_run(i)
    /\ LET started == [exec[i] EXCEPT
                         !.has_ctx = TRUE,
                         !.ctx = new_context(i),
                         !.result = << [TestResult(i) EXCEPT !.started_at = "now"] >>]
       IN  IF plugins.is_none
           THEN exec' = [exec EXCEPT ![i] =
                    [started EXCEPT !.exc = "TypeError", !.pc = "except",
                                    !.raised = {"plugins"}]]
           ELSE LET reqs == requirements(extras, test_cases[i])
                IN  Len(reqs) <= MaxFixtures /\ exec' = [exec EXCEPT ![i] =
                        [started EXCEPT
                           !.reqs = reqs,
                           !.k = 1,
                           !.pc = IF reqs = <<>> THEN after_enter_pc ELSE "enter"]]
    /\ UNCHANGED <<config, lib, heap, engine_pc, idx, running, running_procs, queue, results,
                   should_run_log>>

\* contextlib.nested enters the next manager: the fixture's setup runs
FixtureSetup(i, outcome) ==
    /\ exec[i].pc = "enter"
    /\ LET e == exec[i]
           n == Len(e.entered) + 1
       IN  IF outcome = "ok"
           THEN /\ exec' = [exec EXCEPT ![i] =
                    [e EXCEPT !.entered = Append(e.entered, n),
                              !.log = Append(e.log, Event("setup", n)),
                              !.pc = IF n = Len(e.reqs) THEN after_enter_pc ELSE "enter"]]
                /\ heap' = [heap EXCEPT ![e.ctx] = setitem(@, n, i)]
           ELSE /\ exec' = [exec EXCEPT ![i] =
                    [e EXCEPT !.log = Append(e.log, Event("setup_raised", n)),
                              !.exc = outcome,
                              !.setup_exc = outcome,
                              !.raised = e.raised \cup {"setup"},
                              !.pc = unwind_pc(e.entered)]]
                /\ heap' = heap
    /\ UNCHANGED <<config, lib, engine_pc, idx, running, running_procs, queue, results,
                   should_run_log>>

\* line 524: the next plugin's will_run_test_case
WillRun(i, outcome) ==
    /\ exec[i].pc = "will"
    /\ LET e == exec[i]
           logged == [e EXCEPT !.log = Append(e.log, Event("will", e.k)),
                               !.will_saw = Append(e.will_saw, heap[e.ctx])]
       IN  IF outcome = "ok"
           THEN exec' = [exec EXCEPT ![i] =
                    IF e.k = NumPlugins
                    THEN [logged EXCEPT !.pc = "body"]
                    ELSE [logged EXCEPT !.k = e.k + 1]]
           ELSE exec' = [exec EXCEPT ![i] =
                    [logged EXCEPT !.exc = outcome,
                                   !.raised = e.raised \cup {"will"},
                                   !.pc = unwind_pc(e.entered)]]
    /\ UNCHANGED <<config, lib, heap, engine_pc, idx, running, running_procs, queue, results,
                   should_run_log>>

\* line 525: the test body reads the Context, writes a key of its own (as
\* context_works_like_object_and_dict does) and returns or raises
Body(i, outcome) ==
    /\ exec[i].pc = "body"
    /\ LET e == exec[i]
       IN  /\ exec' = [exec EXCEPT ![i] =
               [e EXCEPT !.log = Append(e.log, Event("body", 0)),
                         !.body_saw = heap[e.ctx],
                         !.body = IF outcome = "ok" THEN "return" ELSE outcome,
                         !.exc = IF outcome = "ok" THEN None ELSE outcome,
                         !.pc = unwind_pc(e.entered)]]
           /\ heap' = [heap EXCEPT ![e.ctx] = setitem(@, 0, i)]
    /\ UNCHANGED <<config, lib, engine_pc, idx, running, running_procs, queue, results,
                   should_run_log>>

\* contextlib.nested exits a manager: the fixture's teardown runs; an
\* exception it raises replaces the one in flight
FixtureTeardown(i, outcome) ==
    /\ exec[i].pc = "exit"
    /\ LET e == exec[i]
           at == exit_next(e.entered)
           n == e.entered[at]
           rest == [m \in 1..(Len(e.entered) - 1) |->
                       IF m < at THEN e.entered[m] ELSE e.entered[m + 1]]
       IN  /\ heap' = [heap EXCEPT ![e.ctx] = delitem(@, n)]
           /\ exec' = [exec EXCEPT ![i] =
               [e EXCEPT !.entered = rest,
                         !.log = Append(e.log, Event("teardown", n)),
                         !.exc = IF outcome = "ok" THEN e.exc ELSE outcome,
                         !.raised = IF outcome = "ok" THEN e.raised
                                    ELSE e.raised \cup {"teardown"},
                         !.pc = unwind_pc(rest)]]
    /\ UNCHANGED <<config, lib, engine_pc, idx, running, running_procs, queue, results,
                   should_run_log>>

\* mutant: "except Exception" comes first and catches Failure too
captured_exception_first(result, exc) ==
    IF exc = None THEN result
    ELSE [result EXCEPT !.error = exc]

\* lines 526-532: the TestResult after the try statement
captured(result, exc) ==
    IF exc = None THEN result
    ELSE IF exc = "Failure" THEN [result EXCEPT !.failure = exc]
    ELSE [result EXCEPT !.error = exc]

\* lines 526-534: the except clauses and ended_at
Finalize(i) ==
    /\ exec[i].pc = "except"
    /\ LET e == exec[i]
       IN  exec' = [exec EXCEPT ![i] =
               [e EXCEPT !.result = << [captured(e.result[1], e.exc)
                                          EXCEPT !.ended_at = "now"] >>,
                         !.exc = None,
                         !.k = 1,
                         !.pc = after_finalize_pc]]
    /\ UNCHANGED <<config, lib, heap, engine_pc, idx, running, running_procs, queue, results,
                   should_run_log>>

\* line 537: the next plugin's did_run_test_case; an exception it raises
\* leaves _run_test_case
DidRun(i, outcome) ==
    /\ exec[i].pc = "did"
    /\ LET e == exec[i]
           r == e.result[1]
           logged == [e EXCEPT
                        !.log = Append(e.log, Event("did", e.k)),
                        !.did_saw = Append(e.did_saw,
                                      [status |-> status(r), ended_at |-> r.ended_at,
                                       ctx |-> heap[e.ctx]])]
       IN  IF outcome = "ok"
           THEN exec' = [exec EXCEPT ![i] =
                    IF e.k = NumPlugins
                    THEN [logged EXCEPT !.pc = "returned"]
                    ELSE [logged EXCEPT !.k = e.k + 1]]
           ELSE exec' = [exec EXCEPT ![i] =
                    [logged EXCEPT !.raised = e.raised \cup {"did"},
                                   !.pc = "escaped"]]
    /\ UNCHANGED <<config, lib, heap, engine_pc, idx, running, running_procs, queue, results,
                   should_run_log>>

\* what a worker puts on the queue: a thread the TestResult itself, a process
\* its pickled form
queued_result(r) == IF mode = RUN_MULTIPROCESS THEN pickled(r) ELSE r

\* _run_and_queue_result (line 406) and run (line 467): the worker puts its
\* result on the queue and ends
WorkerPut(i) ==
    /\ mode \in {RUN_MULTITHREAD, RUN_MULTIPROCESS}
    /\ exec[i].pc = "returned"
    /\ queue' = Append(queue, [tag |-> i, result |-> queued_result(exec[i].result[1])])
    /\ exec' = [exec EXCEPT ![i] = ExitedExec]
    /\ UNCHANGED <<config, lib, heap, engine_pc, idx, running, running_procs, results,
                   should_run_log>>

\* a frame whose worker ended without a result
DiedExec == [IdleExec EXCEPT !.pc = "died"]

\* An exception left _run_test_case in a worker: _run_and_queue_result logs it
\* (lines 407-408) and the thread ends, run (line 466) lets it through and the
\* process dies.  Nothing is put on the queue.
WorkerDie(i) ==
    /\ mode \in {RUN_MULTITHREAD, RUN_MULTIPROCESS}
    /\ exec[i].pc = "escaped"
    /\ exec' = [exec EXCEPT ![i] = DiedExec]
    /\ UNCHANGED <<config, lib, heap, engine_pc, idx, running, running_procs, queue, results,
                   should_run_log>>

\* -------------------------------------------------------------------- Next
Next ==
    \/ \E answers \in [1..NumPlugins -> ShouldRunValues] : NextTestCase(answers)
    \/ LoopEnd
    \/ SingleCall
    \/ SingleReturn
    \/ ThreadAdmit
    \/ ThreadGet
    \/ ThreadDrained
    \/ ProcessAdmit
    \/ ProcessGet
    \/ ProcessWhileEnd
    \/ \E i \in Tests :
          \/ \E extras \in [1..NumPlugins -> ExtraChoices] : RunStart(i, extras)
          \/ \E outcome \in {"ok"} \cup Raisable : FixtureSetup(i, outcome)
          \/ \E outcome \in {"ok", "Error"} : WillRun(i, outcome)
          \/ \E outcome \in {"ok"} \cup Raisable : Body(i, outcome)
          \/ \E outcome \in {"ok"} \cup Raisable : FixtureTeardown(i, outcome)
          \/ Finalize(i)
          \/ \E outcome \in {"ok", "Error"} : DidRun(i, outcome)
          \/ WorkerPut(i)
          \/ WorkerDie(i)

Spec == Init /\ [][Next]_vars

\* the scheduler runs every thread and process that can take a step, and the
\* consumer keeps asking for results
FairSpec == Spec /\ WF_vars(Next)

\* ------------------------------------------------- the expect_* functions
\* The objects the expect_* functions are called with: None, the bools, small
\* ints, lists of ints and classes.  n is the number a bool or an int is,
\* items the elements of a list, name the name of a class.
Object(type, n, items, name) ==
    [type |-> type, n |-> n, items |-> items, name |-> name]

NoneObject == Object("NoneType", 0, <<>>, "")
Bool(b) == Object("bool", IF b THEN 1 ELSE 0, <<>>, "")
Integer(n) == Object("int", n, <<>>, "")
List(items) == Object("list", 0, items, "")
Class(name) == Object("type", 0, <<>>, name)

Objects ==
    {NoneObject} \cup {Bool(b) : b \in BOOLEAN} \cup {Integer(n) : n \in 0..MaxInt}
        \cup {List(<<>>), List(<<1>>), List(<<2, 1>>)}

Classes == {Class("int"), Class("list"), Class("object")}

is_number(a) == a.type \in {"bool", "int"}

\* bool(a)
truth(a) ==
    CASE a.type = "NoneType" -> FALSE
      [] is_number(a) -> a.n # 0
      [] a.type = "list" -> a.items # <<>>
      [] OTHER -> TRUE

\* a == b: a bool is the int 1 or 0
eq(a, b) ==
    CASE is_number(a) /\ is_number(b) -> a.n = b.n
      [] a.type = "list" /\ b.type = "list" -> a.items = b.items
      [] OTHER -> a = b

\* s < t for two lists of ints
RECURSIVE list_lt(_, _)
list_lt(s, t) ==
    IF t = <<>> THEN FALSE
    ELSE IF s = <<>> THEN TRUE
    ELSE IF Head(s) # Head(t) THEN Head(s) < Head(t)
    ELSE list_lt(Tail(s), Tail(t))

\* where Python 2 puts an object among objects of other types: None first,
\* then the numbers, then the others by the name of their type
rank(a) ==
    CASE a.type = "NoneType" -> 0
      [] is_number(a) -> 1
      [] a.type = "list" -> 2
      [] OTHER -> 3

\* a < b
lt(a, b) ==
    IF rank(a) # rank(b) THEN rank(a) < rank(b)
    ELSE IF is_number(a) THEN a.n < b.n
    ELSE IF a.type = "list" THEN list_lt(a.items, b.items)
    ELSE FALSE

\* b in a: "True", "False", or "TypeError" when a is no container
in_(b, a) ==
    IF a.type # "list" THEN "TypeError"
    ELSE IF \E k \in 1..Len(a.items) : is_number(b) /\ a.items[k] = b.n
    THEN "True" ELSE "False"

\* isinstance(a, class)
isinstance(a, class) ==
    \/ class.name = "object"
    \/ class.name = a.type
    \/ class.name = "int" /\ a.type = "bool"

\* "True" or "False" for a Boolean
bool_text(b) == IF b THEN "True" ELSE "False"

\* the names of the expect_* functions of one and of two operands
UnaryExpect == {"expect", "expect_not", "expect_not_none"}
OrderExpect ==
    {"expect_eq", "expect_ne", "expect_gt", "expect_ge", "expect_le", "expect_lt"}

\* the first argument of make_expect_function applied to the operands: the
\* text of its truth value, or the exception it raises.  operator.contains(a,
\* b) is the test b in a.
function(fn, args) ==
    CASE fn = "expect_eq" -> bool_text(eq(args[1], args[2]))
      [] fn = "expect_ne" -> bool_text(~eq(args[1], args[2]))
      [] fn = "expect_gt" -> bool_text(lt(args[2], args[1]))
      [] fn = "expect_ge" -> bool_text(~lt(args[1], args[2]))
      [] fn = "expect_le" -> bool_text(~lt(args[2], args[1]))
      [] fn = "expect_lt" -> bool_text(lt(args[1], args[2]))
      [] fn = "expect_not_none" -> bool_text(args[1] # NoneObject)
      [] fn = "expect_not" -> bool_text(~truth(args[1]))
      [] fn = "expect" -> bool_text(truth(args[1]))
      [] fn = "expect_contains" -> in_(args[2], args[1])
      [] fn = "expect_isinstance" -> bool_text(isinstance(args[1], args[2]))

\* the second argument of make_expect_function: the format of the message
msg(fn) ==
    CASE fn = "expect_eq" -> "%r == %r"
      [] fn = "expect_ne" -> "%r != %r"
      [] fn = "expect_gt" -> "%r > %r"
      [] fn = "expect_ge" -> "%r >= %r"
      [] fn = "expect_le" -> "%r <= %r"
      [] fn = "expect_lt" -> "%r < %r"
      [] fn = "expect_not_none" -> "%r is not None"
      [] fn = "expect_not" -> "not %r"
      [] fn = "expect" -> "%r"
      [] fn = "expect_contains" -> "%r in %r"
      [] fn = "expect_isinstance" -> "%r isinstance %r"

\* "expected: " + (msg % args): the text before the first operand, then the
\* operands' repr, each with the text of the format that follows it
formatted(fmt, args) == <<"expected: ", fmt, args>>

\* wrapper(*args): what the call raises (None when it returns) and the
\* message of the Failure
wrapper(fn, args) ==
    LET truth_value == function(fn, args)
    IN  IF truth_value = "True" THEN [out |-> None, msg |-> <<>>]
        ELSE IF truth_value = "False"
        THEN [out |-> "Failure", msg |-> formatted(msg(fn), args)]
        ELSE [out |-> truth_value, msg |-> <<>>]

\* the operands a test body calls an expect_* function with
Operands(fn) ==
    IF fn \in UnaryExpect THEN {<<a>> : a \in Objects}
    ELSE IF fn = "expect_isinstance"
    THEN {<<a, c>> : a \in Objects, c \in Classes}
    ELSE {<<a, b>> : a \in Objects, b \in Objects}

\* a test body calls an expect_* function
Expect(fn, args) ==
    /\ LET w == wrapper(fn, args)
       IN  call' = [NoCall EXCEPT !.fn = fn, !.args = args, !.out = w.out,
                                  !.msg = w.msg]
    /\ UNCHANGED <<config, engine_pc, idx, running, running_procs, queue, results,
                   should_run_log, exec, heap, all_test_cases, global_plugins,
                   registered, context>>

\* ------------------------------------------------------------ expect_raises
\* the exception classes: Failure and KeyError derive from Exception
ExceptionClasses == {"Exception", "Failure", "KeyError"}

issubclass(class, other) == class = other \/ other = "Exception"

\* "with expect_raises(exc_type): block", where block is the class of the
\* exception the block raises or None: what leaves the with statement (None
\* when it completes).  The else clause of line 335 evaluates qa.Failure, and
\* qa.py defines no name qa.
expect_raises(exc_type, block) ==
    IF block = None THEN "NameError"
    ELSE IF issubclass(block, exc_type) THEN None
    ELSE block

\* a test body runs a block under expect_raises
ExpectRaises(exc_type, block) ==
    /\ call' = [NoCall EXCEPT !.fn = "expect_raises",
                              !.args = <<Class(exc_type)>>,
                              !.block = block,
                              !.out = expect_raises(exc_type, block)]
    /\ UNCHANGED <<config, engine_pc, idx, running, running_procs, queue, results,
                   should_run_log, exec, heap, all_test_cases, global_plugins,
                   registered, context>>

\* ------------------------------------------------------- the class Context
\* the keys a test body uses; items is also the name of a method of dict
ContextKeys == {"x", "foo", "items"}

\* names that are attributes of the class Context (its own methods and those
\* of dict)
ClassAttributes == {"items", "keys", "values"}

\* what reading a Context gives: a value, a bound method of the class, or an
\* exception
Value(value) == [kind |-> "value", value |-> value, name |-> ""]
Method(name) == [kind |-> "method", value |-> 0, name |-> name]
Raised(name) == [kind |-> "raised", value |-> 0, name |-> name]

has_key(d, key) == \E x \in d : x.key = key

\* ctx[key]
getitem(d, key) ==
    IF has_key(d, key)
    THEN Value((CHOOSE x \in d : x.key = key).value)
    ELSE Raised("KeyError")

\* Context.__getattr__(attr)
getattr_hook(d, attr) ==
    IF getitem(d, attr) = Raised("KeyError")
    THEN Raised("AttributeError")
    ELSE getitem(d, attr)

\* ctx.attr: the attributes of the class are found first, __getattr__ is
\* called for the other names only
getattr(d, attr) ==
    IF attr \in ClassAttributes THEN Method(attr) ELSE getattr_hook(d, attr)

\* list(ctx), ctx.values() and ctx.items(), as sets
keys(d) == {x.key : x \in d}
values(d) == {x.value : x \in d}
items(d) == {<<x.key, x.value>> : x \in d}

\* ctx.attr = value (style "attr", through __setattr__) or ctx[key] = value
\* (style "item")
ContextSet(style, key, value) ==
    /\ context' = setitem(context, key, value)
    /\ call' = [NoCall EXCEPT !.fn = IF style = "attr" THEN "setattr" ELSE "setitem",
                              !.key = key, !.out = None]
    /\ UNCHANGED <<config, engine_pc, idx, running, running_procs, queue, results,
                   should_run_log, exec, heap, all_test_cases, global_plugins,
                   registered>>

\* del ctx.attr (through __delattr__) or del ctx[key]: a key that is not there
\* raises AttributeError or KeyError
ContextDel(style, key) ==
    /\ context' = delitem(context, key)
    /\ call' = [NoCall EXCEPT
                  !.fn = IF style = "attr" THEN "delattr" ELSE "delitem",
                  !.key = key,
                  !.out = IF has_key(context, key) THEN None
                          ELSE IF style = "attr" THEN "AttributeError"
                          ELSE "KeyError"]
    /\ UNCHANGED <<config, engine_pc, idx, running, running_procs, queue, results,
                   should_run_log, exec, heap, all_test_cases, global_plugins,
                   registered>>

\* ------------------------------------------------------------ the registry
\* mutant: a test case that is in the registry already is not added again
appended_once(registry, test_case) ==
    IF \E k \in 1..Len(registry) : registry[k] = test_case
    THEN registry
    ELSE Append(registry, test_case)

\* _qa_globals.all_test_cases.append(test_case)
appended(registry, test_case) == Append(registry, test_case)

\* register_test_case(test_case), called while the test modules are imported
register_test_case(test_case) ==
    /\ engine_pc = "import"
    /\ Len(registered) < MaxTests
    /\ all_test_cases' = appended(all_test_cases, test_case)
    /\ registered' = Append(registered, test_case)
    /\ call' = [NoCall EXCEPT !.fn = "register_test_case", !.out = None]
    /\ UNCHANGED <<config, engine_pc, idx, running, running_procs, queue, results,
                   should_run_log, exec, heap, global_plugins, context>>

\* @testcase(requires=..., is_global=...) applied to a function: the TestCase
\* is made and, if is_global, registered
testcase(requires, is_global) ==
    /\ engine_pc = "import"
    /\ LET a_test_case == TestCase(FALSE, "", requires)
       IN  IF is_global
           THEN /\ Len(registered) < MaxTests
                /\ all_test_cases' = appended(all_test_cases, a_test_case)
                /\ registered' = Append(registered, a_test_case)
           ELSE UNCHANGED <<all_test_cases, registered>>
    /\ call' = [NoCall EXCEPT !.fn = "testcase",
                              !.out = IF is_global THEN "global" ELSE "local"]
    /\ UNCHANGED <<config, engine_pc, idx, running, running_procs, queue, results,
                   should_run_log, exec, heap, global_plugins, context>>

\* register_plugin(plugin), called while the test modules are imported: for
\* a plugin that is not in _qa_globals.plugins the call is
\* _qa_globals.append(plugin), and the module _qa_globals has no attribute
\* append: AttributeError, the list is as it was; for a plugin that is in the
\* list an error is logged
register_plugin(plugin) ==
    /\ engine_pc = "import"
    /\ IF \A k \in 1..Len(global_plugins) : global_plugins[k] # plugin
       THEN call' = [NoCall EXCEPT !.fn = "register_plugin", !.plugin = plugin,
                                   !.out = "AttributeError"]
       ELSE call' = [NoCall EXCEPT !.fn = "register_plugin", !.plugin = plugin,
                                   !.out = None]
    /\ UNCHANGED <<config, engine_pc, idx, running, running_procs, queue, results,
                   should_run_log, exec, heap, all_test_cases, global_plugins,
                   registered, context>>

\* main() without arguments and without --filter: the registry is run with
\* the plugins of _qa_globals.plugins in the default mode
main ==
    /\ engine_pc = "import"
    /\ test_cases' = all_test_cases
    /\ plugins' = [is_none |-> FALSE, list |-> global_plugins]
    /\ engine_pc' = "loop"
    /\ UNCHANGED <<mode, num_workers, lib, idx, running, running_procs, queue,
                   results, should_run_log, exec, heap>>

\* the test modules are about to be imported: nothing is registered, nothing
\* runs; the default mode is RUN_SINGLETHREAD
RegistryInit ==
    /\ mode = RUN_SINGLETHREAD
    /\ num_workers = <<>>
    /\ plugins = PluginList(0)
    /\ test_cases = <<>>
    /\ engine_pc = "import"
    /\ RunInit
    /\ LibInit

RegistryNext ==
    \/ \E requires \in {0, MaxRequires}, is_global \in BOOLEAN :
          testcase(requires, is_global)
    \/ \E test_case \in TestCaseDomain : register_test_case(test_case)
    \/ \E plugin \in 1..MaxPlugins : register_plugin(plugin)
    \/ main
    \/ \E answers \in [1..NumPlugins -> ShouldRunValues] : NextTestCase(answers)
    \/ LoopEnd
    \/ SingleCall
    \/ SingleReturn
    \/ \E i \in Tests :
          \/ \E extras \in [1..NumPlugins -> ExtraChoices] : RunStart(i, extras)
          \/ \E outcome \in {"ok"} \cup Raisable : FixtureSetup(i, outcome)
          \/ \E outcome \in {"ok"} \cup Raisable : Body(i, outcome)
          \/ \E outcome \in {"ok"} \cup Raisable : FixtureTeardown(i, outcome)
          \/ Finalize(i)

\* the registrations of the imported test modules, then main()
RegistrySpec == RegistryInit /\ [][RegistryNext]_vars

\* ------------------------------------------------ what a test body may call
ExpectFunctions == UnaryExpect \cup OrderExpect \cup {"expect_contains", "expect_isinstance"}

ExpectNext ==
    \/ \E fn \in ExpectFunctions : \E args \in Operands(fn) : Expect(fn, args)
    \/ \E exc_type \in ExceptionClasses, block \in ExceptionClasses \cup {None} :
          ExpectRaises(exc_type, block)

\* the expect_* calls and expect_raises blocks of a test body
ExpectSpec == RegistryInit /\ [][ExpectNext]_vars

ContextNext ==
    \/ \E style \in {"attr", "item"}, key \in ContextKeys, value \in 1..MaxInt :
          ContextSet(style, key, value)
    \/ \E style \in {"attr", "item"}, key \in ContextKeys : ContextDel(style, key)

\* the writes and deletes of a test body on a Context that starts empty
ContextSpec == RegistryInit /\ [][ContextNext]_vars

\* ================================================================= claims
\* ----------------------------------------------------------------- helpers
\* the positions in the result stream of the results of test i
ResultsOf(i) == {k \in 1..Len(results) : results[k].name = i}

IsSetup(ev) == ev.ev = "setup"
IsTeardown(ev) == ev.ev = "teardown"
Numbers(s) == [k \in 1..Len(s) |-> s[k].n]
Reverse(s) == [k \in 1..Len(s) |-> s[Len(s) + 1 - k]]
IsPrefix(a, b) == Len(a) <= Len(b) /\ \A k \in 1..Len(a) : a[k] = b[k]

\* the positions in a frame's log of the events ev of plugin or fixture n
At(e, ev, n) == {k \in 1..Len(e.log) : e.log[k] = Event(ev, n)}

\* the with statement of line 522 has been left
LeftWith(e) == e.pc \in {"except", "did", "returned", "escaped"}

\* ---------------------------------------------------------------------- C1
\* C1: a test case whose static skip flag is set never gets a frame (no
\* Context, no fixture setup, no will_run/did_run hook, no body) and no
\* plugin is asked about it; once the driver's loop has taken it, the result
\* stream holds exactly one result for it, with skipped = True, status
\* "skipped" and skipped_reason equal to the test case's skip_reason.  Under
\* every driver.
C1_StaticSkipYieldsSkipped ==
    \A i \in 1..Len(test_cases) :
        test_cases[i].skip =>
            /\ exec[i] = IdleExec
            /\ \A k \in 1..Len(queue) : queue[k].tag # i
            /\ should_run_log.test = i => should_run_log.answers = <<>>
            /\ Cardinality(ResultsOf(i)) = (IF idx >= i THEN 1 ELSE 0)
            /\ \A k \in ResultsOf(i) :
                  /\ results[k].skipped
                  /\ status(results[k]) = "skipped"
                  /\ results[k].skipped_reason = test_cases[i].skip_reason

\* a statically skipped test case taken by the thread driver after a test that ran
C1_Witness ==
    /\ mode = RUN_MULTITHREAD
    /\ Len(test_cases) = 2
    /\ ~test_cases[1].skip
    /\ test_cases[2].skip
    /\ Len(results) = 2
    /\ results[2].name = 2
    /\ results[2].skipped_reason = "Should be skipped"
    /\ NumPlugins = 1

\* ---------------------------------------------------------------------- C2
\* C2: when _run_test_case runs a test with a plugin list (not None) and no
\* hook and no fixture raised, the status of its result is "ok" exactly when
\* the body returned, "failed" exactly when the body raised Failure (which is
\* then the failure payload) and "crashed" exactly when the body raised
\* another exception (which is then the error payload).
C2_StatusFollowsBody ==
    \A i \in 1..Len(test_cases) :
        LET e == exec[i] IN
        (e.pc \in {"did", "returned"} /\ ~plugins.is_none /\ e.raised = {}) =>
            LET r == e.result[1] IN
            /\ e.body \in {"return", "Failure", "Error"}
            /\ status(r) = "ok" <=> e.body = "return"
            /\ status(r) = "failed" <=> e.body = "Failure"
            /\ status(r) = "crashed" <=> e.body = "Error"
            /\ e.body = "Failure" => r.failure = "Failure" /\ r.error = None
            /\ e.body = "Error" => r.error = "Error" /\ r.failure = None
            /\ e.body = "return" => r.error = None /\ r.failure = None

\* a body that raised Failure, with two well-behaved plugins and a fixture
C2_Witness ==
    \E i \in 1..Len(test_cases) :
        /\ exec[i].pc = "returned"
        /\ exec[i].raised = {}
        /\ exec[i].body = "Failure"
        /\ status(exec[i].result[1]) = "failed"
        /\ NumPlugins = 2
        /\ Len(exec[i].reqs) > 0

\* ---------------------------------------------------------------------- C3
\* the list requirements holds the plugins' extra requirements in plugin
\* order, then the test's own in declaration order
RequirementsOrdered(reqs) ==
    \A a, b \in 1..Len(reqs) :
        a < b =>
            /\ reqs[a].src = "own" => reqs[b].src = "own"
            /\ reqs[a].src = reqs[b].src =>
                  \/ reqs[a].p < reqs[b].p
                  \/ reqs[a].p = reqs[b].p /\ reqs[a].j < reqs[b].j

\* C3: in every execution the fixtures are set up in the order of the
\* combined list (plugins' extras in plugin order, then the test's own
\* requires in declaration order); the body starts only after every setup;
\* the teardowns come after the body, each fixture that was set up is torn
\* down at most once, in the reverse order of the setups, and when the with
\* statement has been left every fixture that was set up has been torn down,
\* whatever the body did.
C3_SetupOrderTeardownReverse ==
    \A i \in 1..Len(test_cases) :
        LET e == exec[i]
            setups == Numbers(SelectSeq(e.log, IsSetup))
            teardowns == Numbers(SelectSeq(e.log, IsTeardown))
        IN  /\ RequirementsOrdered(e.reqs)
            /\ Cardinality({a \in 1..Len(e.reqs) : e.reqs[a].src = "own"})
                   \in {0, test_cases[i].requires}
            /\ setups = [k \in 1..Len(setups) |-> k]
            /\ Len(setups) <= Len(e.reqs)
            /\ \A b \in At(e, "body", 0) :
                  /\ Len(setups) = Len(e.reqs)
                  /\ \A n \in 1..Len(e.reqs) : \A a \in At(e, "setup", n) : a < b
                  /\ \A n \in 1..Len(e.reqs) : \A a \in At(e, "teardown", n) : b < a
            /\ IsPrefix(teardowns, Reverse(setups))
            /\ LeftWith(e) => teardowns = Reverse(setups)

\* three fixtures, a plugin's and the test's own two, torn down after a body
\* that raised
C3_Witness ==
    \E i \in 1..Len(test_cases) :
        /\ exec[i].pc = "except"
        /\ exec[i].body = "Error"
        /\ Len(exec[i].reqs) = 3
        /\ exec[i].reqs[1].src = "plugin"
        /\ exec[i].reqs[2] = Fixture("own", 0, 1)
        /\ exec[i].reqs[3] = Fixture("own", 0, 2)
        /\ Numbers(SelectSeq(exec[i].log, IsTeardown)) = <<3, 2, 1>>

\* ------------------------------------------------- the drivers, observed
\* the executions that have been started and whose result the driver has not
\* taken from the queue
InFlight ==
    {i \in 1..Len(test_cases) : exec[i].pc # "idle" /\ ResultsOf(i) = {}}

\* the driver stands at a queue.get() call
Waiting ==
    \/ mode = RUN_MULTITHREAD /\ engine_pc = "get_full"
    \/ mode = RUN_MULTITHREAD /\ engine_pc = "drain" /\ running > 0
    \/ mode = RUN_MULTIPROCESS /\ engine_pc \in {"while_full", "while_running"}
          /\ process_waits

\* the driver stands at a queue.get() call that never returns: the queue is
\* empty and no worker is left that could put a result
BlockedForever ==
    /\ Waiting
    /\ queue = <<>>
    /\ \A i \in Tests : exec[i].pc \in {"idle", "exited", "died"}

\* the run has ended: the generator is exhausted, an exception left it, or it
\* is blocked for ever
Halted == engine_pc \in {"done", "raised"} \/ BlockedForever

\* the result stream holds exactly one result for every test case
OneResultPerTest ==
    /\ Len(results) = Len(test_cases)
    /\ \A i \in 1..Len(test_cases) : Cardinality(ResultsOf(i)) = 1

\* a test case the driver's loop has not taken yet and that no plugin can
\* skip (the list of plugins is empty) and that is not statically skipped
RunnableRemains ==
    /\ NumPlugins = 0
    /\ \E j \in (idx + 1)..Len(test_cases) : ~test_cases[j].skip

\* ---------------------------------------------------------------------- C4
\* C4 (as claimed, for the runs with an empty list of plugins, where no hook
\* exists that could raise): under every driver, when the run has ended the
\* result stream holds exactly one result per test case of the input, whatever
\* the bodies raised; an empty input gives an empty stream.
C4_OneResultPerTest ==
    (Halted /\ ~plugins.is_none /\ NumPlugins = 0) => OneResultPerTest

\* the same with at least one worker: what the drivers do keep
C4_OneResultPerTestWithWorkers ==
    (Halted /\ ~plugins.is_none /\ NumPlugins = 0
       /\ (mode # RUN_SINGLETHREAD => NumWorkers >= 1)) => OneResultPerTest

\* ---------------------------------------------------------------------- C5
\* C5: under the thread driver and the process driver with num_workers >= 1,
\* at most num_workers executions are in flight (started, result not yet
\* taken from the queue) in every state of the run.
C5_InFlightAtMostWorkers ==
    (mode \in {RUN_MULTITHREAD, RUN_MULTIPROCESS} /\ NumWorkers >= 1) =>
        Cardinality(InFlight) <= NumWorkers

\* one worker, two tests that run: the second is started once the first one's
\* result has been taken
C5_Witness ==
    /\ mode = RUN_MULTIPROCESS
    /\ NumWorkers = 1
    /\ Len(test_cases) = 2
    /\ ResultsOf(1) # {}
    /\ exec[2].pc = "body"
    /\ InFlight = {2}

\* ---------------------------------------------------------------------- C6
\* C6 (as claimed): under the pool drivers with at least one worker, the
\* driver never stands for ever at queue.get() waiting for a worker that
\* ended without putting a result.
C6_NoLostCompletion ==
    (mode \in {RUN_MULTITHREAD, RUN_MULTIPROCESS} /\ NumWorkers >= 1) =>
        ~(BlockedForever /\ \E i \in Tests : exec[i].pc = "died")

\* ---------------------------------------------------------------------- C7
\* C7 (as claimed): under each pool driver with num_workers >= 2, while a
\* test case that will run is still to be admitted the driver waits at
\* queue.get() only when num_workers executions are in flight.
C7_WaitsOnlyWhenFull ==
    (mode \in {RUN_MULTITHREAD, RUN_MULTIPROCESS} /\ NumWorkers >= 2
       /\ Waiting /\ RunnableRemains) =>
        Cardinality(InFlight) >= NumWorkers

\* what the process driver does keep: it waits only with num_workers in flight
C7_ProcessWaitsOnlyWhenFull ==
    (mode = RUN_MULTIPROCESS /\ NumWorkers >= 2 /\ Waiting /\ RunnableRemains) =>
        Cardinality(InFlight) >= NumWorkers

\* ---------------------------------------------------------------------- C8
\* C8 (as claimed, for the runs with an empty list of plugins): under the pool
\* drivers with num_workers 0 or 1 at most one execution is in flight, the
\* driver is never blocked for ever, and the exhausted generator has yielded
\* one result per test case.
C8_ZeroOrOneWorkerSequential ==
    (mode \in {RUN_MULTITHREAD, RUN_MULTIPROCESS} /\ NumWorkers <= 1
       /\ ~plugins.is_none /\ NumPlugins = 0) =>
        /\ Cardinality(InFlight) <= 1
        /\ ~BlockedForever
        /\ engine_pc = "done" => OneResultPerTest

\* the same for exactly one worker: what the drivers do keep
C8_OneWorkerSequential ==
    (mode \in {RUN_MULTITHREAD, RUN_MULTIPROCESS} /\ NumWorkers = 1
       /\ ~plugins.is_none /\ NumPlugins = 0) =>
        /\ Cardinality(InFlight) <= 1
        /\ ~BlockedForever
        /\ engine_pc = "done" => OneResultPerTest

\* ---------------------------------------------------------------------- C9
\* a test case the driver skipped has no frame
SkippedNeverRuns ==
    \A i \in 1..Len(test_cases) :
        (\E k \in ResultsOf(i) : results[k].skipped) => exec[i] = IdleExec

\* every did_run_test_case call of a frame came after all the teardowns and
\* saw the result as it is returned: final status, ended_at set
DidRunAfterTeardownSeesFinal(e) ==
    /\ (\E p \in 1..NumPlugins : At(e, "did", p) # {}) =>
          /\ e.entered = <<>>
          /\ Numbers(SelectSeq(e.log, IsTeardown))
                 = Reverse(Numbers(SelectSeq(e.log, IsSetup)))
    /\ \A p \in 1..NumPlugins : \A d \in At(e, "did", p) :
          \A n \in 1..Len(e.reqs) : \A a \in At(e, "teardown", n) : a < d
    /\ \A k \in 1..Len(e.did_saw) :
          /\ e.did_saw[k].ended_at # None
          /\ e.did_saw[k].ended_at = e.result[1].ended_at
          /\ e.did_saw[k].status = status(e.result[1])

\* C9 (as claimed): for every plugin and every test that is run, the plugin's
\* did_run_test_case is invoked exactly once by the time the call ends, after
\* that plugin's will_run_test_case for the test and after all teardowns,
\* with the final result; for a skipped test it is never invoked.
C9_DidRunOnceAfterWillRun ==
    /\ SkippedNeverRuns
    /\ \A i \in 1..Len(test_cases) :
          LET e == exec[i] IN
          /\ DidRunAfterTeardownSeesFinal(e)
          /\ \A p \in 1..NumPlugins :
                /\ Cardinality(At(e, "did", p)) <= 1
                /\ e.pc \in {"returned", "escaped"} =>
                      Cardinality(At(e, "did", p)) = 1
                /\ \A d \in At(e, "did", p) : \E w \in At(e, "will", p) : w < d

\* C9 (amended): did_run_test_case is invoked at most once per plugin and
\* test, in plugin order, after all teardowns and with the final result;
\* exactly once for every plugin when _run_test_case returns, and for the
\* plugins up to the raising one when a did_run_test_case raises.  It comes
\* after the same plugin's will_run_test_case whenever that was invoked;
\* will_run_test_case is invoked at most once, and is left out only when a
\* fixture setup or an earlier will_run_test_case raised (did_run_test_case
\* is invoked all the same).  For a skipped test neither is invoked.
C9_DidRunOnceAfterTeardown ==
    /\ SkippedNeverRuns
    /\ \A i \in 1..Len(test_cases) :
          LET e == exec[i] IN
          /\ DidRunAfterTeardownSeesFinal(e)
          /\ \A p \in 1..NumPlugins :
                /\ Cardinality(At(e, "did", p)) <= 1
                /\ Cardinality(At(e, "will", p)) <= 1
                /\ e.pc = "returned" => Cardinality(At(e, "did", p)) = 1
                /\ e.pc = "escaped" =>
                      Cardinality(At(e, "did", p)) = (IF p <= e.k THEN 1 ELSE 0)
                /\ \A d \in At(e, "did", p) :
                      /\ \A w \in At(e, "will", p) : w < d
                      /\ \A q \in 1..(p - 1) : \E c \in At(e, "did", q) : c < d
                /\ (At(e, "did", p) # {} /\ At(e, "will", p) = {}) =>
                      e.raised \cap {"setup", "will"} # {}
                /\ (LeftWith(e) /\ e.raised \cap {"setup", "will"} = {}) =>
                      At(e, "will", p) # {}

\* a fixture's setup raised: both plugins' did_run_test_case were invoked, no
\* will_run_test_case was
C9_Witness ==
    \E i \in 1..Len(test_cases) :
        /\ exec[i].pc = "returned"
        /\ NumPlugins = 2
        /\ "setup" \in exec[i].raised
        /\ At(exec[i], "did", 1) # {}
        /\ At(exec[i], "did", 2) # {}
        /\ At(exec[i], "will", 1) = {}
        /\ Len(exec[i].did_saw) = 2
        /\ exec[i].did_saw[2].status = "crashed"

\* --------------------------------------------------------------------- C10
\* C10 (as claimed): when the static skip flag is not set and a plugin's
\* should_run_test_case returns a value that is neither True nor False, the
\* test's result is skipped and its skipped_reason is the text form of that
\* value.
C10_SkipReasonIsTextOfValue ==
    LET i == should_run_log.test
        a == should_run_log.answers
    IN  (i > 0 /\ a # <<>> /\ a[Len(a)] \notin {PyTrue, PyFalse}) =>
            \E k \in ResultsOf(i) :
                /\ results[k].skipped
                /\ results[k].skipped_reason = unicode(a[Len(a)])

\* what the code does keep: the test is skipped, with the reason of the
\* test case
C10_SkippedWithTestCaseReason ==
    LET i == should_run_log.test
        a == should_run_log.answers
    IN  (i > 0 /\ a # <<>> /\ a[Len(a)] \notin {PyTrue, PyFalse}) =>
            \E k \in ResultsOf(i) :
                /\ results[k].skipped
                /\ status(results[k]) = "skipped"
                /\ results[k].skipped_reason = test_cases[i].skip_reason

\* --------------------------------------------------------------------- C11
\* C11 (as claimed): in the skip decision the plugins are asked in
\* registration order and the asking stops at the first plugin that does not
\* return True: every plugin asked before the last one asked returned True,
\* and the outcome is that plugin's (skipped exactly when it did not return
\* True).
C11_StopsAtFirstRefusal ==
    LET i == should_run_log.test
        a == should_run_log.answers
    IN  i > 0 =>
            /\ \A k \in 1..(Len(a) - 1) : a[k] = PyTrue
            /\ (a # <<>> /\ a[Len(a)] # PyTrue) =>
                  \E k \in ResultsOf(i) : results[k].skipped

\* what the code does keep: the plugins are asked in order, the asking stops
\* at the first value that is neither True nor False, and the test is skipped
\* exactly when a plugin asked did not return True
C11_StopsAtFirstNonBool ==
    LET i == should_run_log.test
        a == should_run_log.answers
    IN  (i > 0 /\ ~test_cases[i].skip) =>
            /\ Len(a) <= NumPlugins
            /\ \A k \in 1..(Len(a) - 1) : a[k] \in {PyTrue, PyFalse}
            /\ Len(a) < NumPlugins => a[Len(a)] \notin {PyTrue, PyFalse}
            /\ (\E k \in 1..Len(a) : a[k] # PyTrue)
                  <=> (\E k \in ResultsOf(i) : results[k].skipped)

\* --------------------------------------------------------------------- C12
\* a step of a pool driver's run keeps the completions in order: a completion
\* is put at the tail of the queue, and the result of a test that ran is
\* yielded only by taking the oldest completion off the queue
StepInCompletionOrder ==
    mode \in {RUN_MULTITHREAD, RUN_MULTIPROCESS} =>
        /\ Len(queue') > Len(queue) =>
              /\ Len(queue') = Len(queue) + 1
              /\ SubSeq(queue', 1, Len(queue)) = queue
              /\ results' = results
        /\ (results' # results /\ ~results'[Len(results')].skipped) =>
              /\ queue # <<>>
              /\ results' = Append(results, Head(queue).result)
              /\ queue' = Tail(queue)

\* C12: under the pool drivers the results of the tests that ran are yielded
\* in the order their executions completed (the order their completions were
\* put on the queue), whatever the order they were submitted in.
C12_YieldedInCompletionOrder == [][StepInCompletionOrder]_vars

\* two workers: the test submitted second completed first and its result is
\* yielded while the test submitted first is still in its body
C12_Witness ==
    /\ mode = RUN_MULTIPROCESS
    /\ NumWorkers >= 2
    /\ Len(test_cases) = 2
    /\ Len(results) = 1
    /\ results[1].name = 2
    /\ ~results[1].skipped
    /\ exec[1].pc = "body"

\* --------------------------------------------------------------------- C13
\* the entries the fixtures ns of execution i wrote
FixtureEntries(i, ns) == {Entry(n, i) : n \in ns}

\* the entry the body of execution i wrote, once it has run
BodyEntries(i, e) == IF At(e, "body", 0) # {} THEN {Entry(0, i)} ELSE {}

\* C13: every execution has a Context object of its own, which no other
\* execution holds and which is empty when the execution starts; its
\* fixtures, its will_run hooks, its body and its did_run hooks work on that
\* one object: the Context holds exactly the entries of the fixtures that are
\* set up and not yet torn down and of the body, all written by this
\* execution; the will_run hooks and the body see the entries of all the
\* fixtures, the did_run hooks see the fixtures' entries removed again.  In
\* every interleaving of the executions.
C13_ContextOwnedByExecution ==
    \A i \in 1..Len(test_cases) :
        LET e == exec[i] IN
        e.has_ctx =>
            /\ \A j \in Tests \ {i} : exec[j].has_ctx => exec[j].ctx # e.ctx
            /\ heap[e.ctx] =
                   FixtureEntries(i, {e.entered[k] : k \in 1..Len(e.entered)})
                       \cup BodyEntries(i, e)
            /\ \A x \in heap[e.ctx] : x.value = i
            /\ At(e, "body", 0) # {} =>
                   e.body_saw = FixtureEntries(i, 1..Len(e.reqs))
            /\ \A k \in 1..Len(e.will_saw) :
                   e.will_saw[k] = FixtureEntries(i, 1..Len(e.reqs))
            /\ \A k \in 1..Len(e.did_saw) : e.did_saw[k].ctx = BodyEntries(i, e)

\* two executions inside their calls at the same time: the first one's body
\* has written its entry, the second one's body is about to run on an empty
\* Context
C13_Witness ==
    /\ Len(test_cases) = 2
    /\ exec[1].pc = "except"
    /\ exec[2].pc = "body"
    /\ exec[1].ctx # exec[2].ctx
    /\ heap[exec[1].ctx] = {Entry(0, 1)}
    /\ heap[exec[2].ctx] = {}

\* --------------------------------------------------------------------- C14
\* the try statement of a frame has been left and its result is complete
Finalized(e) == e.pc \in {"did", "returned", "escaped"}

\* C14 (as claimed): when the body raised and a fixture teardown raised too,
\* the status of the result is the one of the body's exception ("failed" for
\* Failure, "crashed" for another exception); when the body returned and a
\* teardown raised, the result is not "ok".
C14_BodyExceptionWins ==
    \A i \in 1..Len(test_cases) :
        LET e == exec[i] IN
        (Finalized(e) /\ "teardown" \in e.raised) =>
            /\ e.body = "Failure" => status(e.result[1]) = "failed"
            /\ e.body = "Error" => status(e.result[1]) = "crashed"
            /\ e.body = "return" => status(e.result[1]) # "ok"

\* what the code does keep: an exception a teardown raised is never dropped,
\* the result is "failed" or "crashed"
C14_TeardownExceptionNotDropped ==
    \A i \in 1..Len(test_cases) :
        LET e == exec[i] IN
        (Finalized(e) /\ "teardown" \in e.raised) =>
            status(e.result[1]) \in {"failed", "crashed"}

\* --------------------------------------------------------------------- C15
\* the status a result has by the rule: crashed if an error payload or text
\* is present, else failed if a failure payload or text is present, else
\* skipped if the skipped flag is set, else ok
StatusByRule(r) ==
    IF r.error # None \/ r.error_msg # "" THEN "crashed"
    ELSE IF r.failure # None \/ r.failure_msg # "" THEN "failed"
    ELSE IF r.skipped THEN "skipped"
    ELSE "ok"

\* C15: every result a driver yielded has at most one of the error and the
\* failure payload (and text) set, a skipped result has neither; its status
\* is one of ok, failed, crashed, skipped, the one the rule gives; and
\* is_success holds exactly when the status is ok.
C15_ResultWellFormed ==
    \A k \in 1..Len(results) :
        LET r == results[k] IN
        /\ ~(r.error # None /\ r.failure # None)
        /\ ~(is_error(r) /\ is_failure(r))
        /\ r.skipped => ~is_error(r) /\ ~is_failure(r)
        /\ status(r) \in {"ok", "failed", "crashed", "skipped"}
        /\ status(r) = StatusByRule(r)
        /\ is_success(r) <=> status(r) = "ok"

\* the process driver yielded a crashed result that carries the text of the
\* error only, after a skipped one
C15_Witness ==
    /\ mode = RUN_MULTIPROCESS
    /\ Len(results) = 2
    /\ status(results[1]) = "skipped"
    /\ status(results[2]) = "crashed"
    /\ results[2].error = None
    /\ results[2].error_msg # ""
    /\ ~is_success(results[2])

\* --------------------------------------------------------------------- C16
\* the TestResults the engine has produced: those of the frames and those
\* it yielded
EngineResults ==
    {exec[i].result[1] : i \in {j \in Tests : exec[j].result # <<>>}}
        \cup {results[k] : k \in 1..Len(results)}

\* C16: for every TestResult the engine produces, __getstate__ followed by
\* __setstate__ gives a result with the same attributes, whose error and
\* failure payloads are None, whose error_msg is non-empty exactly when the
\* original is an error and whose failure_msg is non-empty exactly when the
\* original is a failure, and whose group, name, description, skipped,
\* skipped_reason, started_at, ended_at and status are the original's.
C16_PickleRoundTrip ==
    \A r \in EngineResults :
        LET q == pickled(r) IN
        /\ DOMAIN q = DOMAIN r
        /\ q.error = None
        /\ q.failure = None
        /\ q.error_msg # "" <=> is_error(r)
        /\ q.failure_msg # "" <=> is_failure(r)
        /\ q.group = r.group
        /\ q.name = r.name
        /\ q.description = r.description
        /\ q.skipped = r.skipped
        /\ q.skipped_reason = r.skipped_reason
        /\ q.started_at = r.started_at
        /\ q.ended_at = r.ended_at
        /\ status(q) = status(r)

\* a failed result went through the process driver's queue: its payload is
\* gone, its text is there
C16_Witness ==
    /\ mode = RUN_MULTIPROCESS
    /\ \E k \in 1..Len(queue) :
          /\ queue[k].result.failure = None
          /\ queue[k].result.failure_msg # ""
          /\ status(queue[k].result) = "failed"
          /\ queue[k].result.ended_at # None

\* --------------------------------------------------------------------- C17
\* C17: the registry is exactly the sequence of the test cases the
\* registering calls were given, in call order and with duplicates; making a
\* test case with is_global=False and running the tests leave it as it is;
\* main() runs the registry, and when the run has ended every entry has its
\* own result (two entries of one test case give two results).
C17_RegistryIsCallOrder ==
    /\ all_test_cases = registered
    /\ engine_pc # "import" => test_cases = all_test_cases
    /\ engine_pc = "done" => OneResultPerTest

\* one test case registered twice and then a test case made with
\* is_global=False; the run has ended with two results that are not skipped
C17_Witness ==
    /\ engine_pc = "done"
    /\ call.fn = "testcase"
    /\ call.out = "local"
    /\ Len(all_test_cases) = 2
    /\ all_test_cases[1] = all_test_cases[2]
    /\ Len(results) = 2
    /\ \A k \in 1..2 : results[k].name = k /\ ~results[k].skipped

\* --------------------------------------------------------------------- C18
\* C18 (as claimed): "with expect_raises(exc_type)" completes silently when
\* the block raises an exception of exc_type, raises Failure when the block
\* raises nothing, and does not complete silently when the block raises an
\* exception of another type.
C18_ExpectRaisesFailsOnNothing ==
    call.fn = "expect_raises" =>
        LET exc_type == call.args[1].name IN
        /\ (call.block # None /\ issubclass(call.block, exc_type)) => call.out = None
        /\ call.block = None => call.out = "Failure"
        /\ (call.block # None /\ ~issubclass(call.block, exc_type)) => call.out # None

\* what the code does keep: the with statement completes silently exactly
\* when the block raises an exception of exc_type, an exception of another
\* type goes through, and a block that raises nothing ends in NameError
C18_ExpectRaisesSilentOnMatch ==
    call.fn = "expect_raises" =>
        LET exc_type == call.args[1].name IN
        /\ call.out = None <=> (call.block # None /\ issubclass(call.block, exc_type))
        /\ (call.block # None /\ ~issubclass(call.block, exc_type)) =>
              call.out = call.block
        /\ call.block = None => call.out = "NameError"

\* --------------------------------------------------------------------- C19
\* the relation an expect_* function stands for, by its name and its doc
\* string: expect_contains is "left is in right"
Holds(fn, args) ==
    CASE fn = "expect" -> truth(args[1])
      [] fn = "expect_not" -> ~truth(args[1])
      [] fn = "expect_not_none" -> args[1] # NoneObject
      [] fn = "expect_eq" -> eq(args[1], args[2])
      [] fn = "expect_ne" -> ~eq(args[1], args[2])
      [] fn = "expect_gt" -> lt(args[2], args[1])
      [] fn = "expect_ge" -> lt(args[2], args[1]) \/ eq(args[1], args[2])
      [] fn = "expect_lt" -> lt(args[1], args[2])
      [] fn = "expect_le" -> lt(args[1], args[2]) \/ eq(args[1], args[2])
      [] fn = "expect_contains" -> in_(args[1], args[2]) = "True"
      [] fn = "expect_isinstance" -> isinstance(args[1], args[2])

\* the call returned silently exactly when the relation holds, and else
\* raised Failure with a message that has the operands
SilentIffHolds(holds) ==
    /\ call.out = None <=> holds
    /\ call.out # None =>
          /\ call.out = "Failure"
          /\ call.msg # <<>>
          /\ call.msg[3] = call.args

\* C19 (as claimed): every expect_* function returns silently exactly when
\* its relation holds on the operands and else raises Failure with a message
\* that contains the operands.
C19_ExpectSilentIffRelation ==
    call.fn \in ExpectFunctions => SilentIffHolds(Holds(call.fn, call.args))

\* what the code does keep: the same for every function but expect_contains,
\* which tests "right is in left" and raises TypeError when left is no
\* container
C19_ExpectContainsReversed ==
    /\ call.fn \in ExpectFunctions \ {"expect_contains"} =>
          SilentIffHolds(Holds(call.fn, call.args))
    /\ call.fn = "expect_contains" =>
          /\ call.out = None <=> in_(call.args[2], call.args[1]) = "True"
          /\ call.out = "TypeError" <=> call.args[1].type # "list"

\* --------------------------------------------------------------------- C20
\* reading key by attribute and by subscript agrees: the same value when the
\* key is set, and no value in either style when it is not
ViewsAgree(key) ==
    IF has_key(context, key)
    THEN /\ getitem(context, key).kind = "value"
         /\ getattr(context, key) = getitem(context, key)
    ELSE /\ getitem(context, key) = Raised("KeyError")
         /\ getattr(context, key).kind # "value"

\* the latest write or delete, in either style, shows in both styles, and
\* the keys, values and items are those of the keys that are set
LatestShows ==
    /\ (call.fn \in {"setattr", "setitem"}) => has_key(context, call.key)
    /\ (call.fn \in {"delattr", "delitem"}) => ~has_key(context, call.key)
    /\ keys(context) \subseteq ContextKeys
    /\ Cardinality(items(context)) = Cardinality(keys(context))
    /\ values(context) = {getitem(context, key).value : key \in keys(context)}

\* C20 (as claimed): after any sequence of writes and deletes in either
\* style, for every key reading by attribute and by subscript gives the same
\* value, a key deleted in one style is absent in the other, and the keys,
\* values and items hold exactly the keys that are set.
C20_ViewsAgreeOnEveryKey ==
    /\ LatestShows
    /\ \A key \in ContextKeys : ViewsAgree(key)

\* what the code does keep: the same for the keys that are no attribute of
\* the class; a key that is one (items) is stored and deleted in both styles
\* alike, and read by subscript only
C20_ViewsAgreeOnPlainKeys ==
    /\ LatestShows
    /\ \A key \in ContextKeys \ ClassAttributes :
          /\ ViewsAgree(key)
          /\ ~has_key(context, key) =>
                getattr(context, key) = Raised("AttributeError")
    /\ \A key \in ContextKeys \cap ClassAttributes :
          getattr(context, key) = Method(key)

\* --------------------------------------------------------------------- C21
\* C21 (as claimed): a run without a plugin set (plugins=None) goes like a
\* run with an empty one: a test that is not skipped and has no fixtures has
\* its body invoked, and its result is "ok" when the body returned and
\* "failed" when the body raised Failure.
C21_NoPluginSetLikeEmpty ==
    \A i \in 1..Len(test_cases) :
        LET e == exec[i] IN
        (plugins.is_none /\ test_cases[i].requires = 0 /\ Finalized(e)) =>
            /\ e.body \in {"return", "Failure", "Error"}
            /\ e.body = "return" => status(e.result[1]) = "ok"
            /\ e.body = "Failure" => status(e.result[1]) = "failed"

\* what the code does keep: without a plugin set the statically skipped
\* tests are skipped, and every other test ends "crashed" with the TypeError
\* of the loop over the plugins, its body never invoked
C21_NoPluginSetCrashes ==
    plugins.is_none =>
        /\ \A i \in 1..Len(test_cases) :
              LET e == exec[i] IN
              /\ e.log = <<>>
              /\ e.body = None
              /\ Finalized(e) =>
                    /\ status(e.result[1]) = "crashed"
                    /\ e.result[1].error = "TypeError"
        /\ \A k \in 1..Len(results) :
              status(results[k]) =
                  (IF test_cases[results[k].name].skip THEN "skipped" ELSE "crashed")

\* --------------------------------------------------------------------- C22
\* In a frame where the setup of a fixture raised: it is one fixture, the
\* k-th; the fixtures before it were set up in order, none after it; those
\* set up are torn down in reverse order, all of them once the with
\* statement is left; no will_run hook and no body is invoked; the result is
\* "failed" or "crashed", and when no teardown raised after it, it carries
\* the setup's exception ("failed" for a Failure, else "crashed"); and when
\* the call returns every plugin's did_run hook has been invoked once.
SetupFailureCaptured(e) ==
    \E k \in 1..Len(e.reqs) :
        LET setups == Numbers(SelectSeq(e.log, IsSetup))
            teardowns == Numbers(SelectSeq(e.log, IsTeardown))
        IN  /\ \A n \in 1..Len(e.reqs) :
                  Cardinality(At(e, "setup_raised", n)) = (IF n = k THEN 1 ELSE 0)
            /\ setups = [j \in 1..(k - 1) |-> j]
            /\ IsPrefix(teardowns, Reverse(setups))
            /\ LeftWith(e) => teardowns = Reverse(setups)
            /\ \A p \in 1..NumPlugins : At(e, "will", p) = {}
            /\ At(e, "body", 0) = {}
            /\ e.body = None
            /\ e.setup_exc \in Raisable
            /\ Finalized(e) => status(e.result[1]) \in {"failed", "crashed"}
            /\ (Finalized(e) /\ "teardown" \notin e.raised) =>
                  /\ status(e.result[1]) =
                         (IF e.setup_exc = "Failure" THEN "failed" ELSE "crashed")
                  /\ e.setup_exc = "Failure" => e.result[1].failure = "Failure"
                  /\ e.setup_exc # "Failure" => e.result[1].error = e.setup_exc
            /\ e.pc = "returned" =>
                  \A p \in 1..NumPlugins : Cardinality(At(e, "did", p)) = 1

\* the call of such a frame returns: the single-thread driver yields its
\* result and goes on with its loop, a worker puts it on the queue
SetupFailureHandedOver ==
    \A i \in 1..Len(test_cases) :
        ("setup" \in exec[i].raised /\ exec'[i] # exec[i]
           /\ exec[i].pc = "returned") =>
            IF mode = RUN_SINGLETHREAD
            THEN /\ results' = Append(results, exec[i].result[1])
                 /\ engine_pc' = "loop"
            ELSE queue' = Append(queue, [tag |-> i,
                                         result |-> queued_result(exec[i].result[1])])

Occurrences(plugin) ==
    Cardinality({k \in 1..Len(global_plugins) : global_plugins[k] = plugin})

\* C23: register_plugin(p) returns with p in the process-wide plugin list,
\* once: appended if it was not in the list, the list left unchanged if it
\* was.
C23_RegisteredPluginInListOnce ==
    call.fn = "register_plugin" =>
        /\ call.out = None
        /\ Occurrences(call.plugin) = 1

\* what the code keeps: register_plugin never changes the list, which is
\* empty throughout, and every call of it ends in AttributeError
C23_PluginListStaysEmpty ==
    /\ global_plugins = <<>>
    /\ call.fn = "register_plugin" => call.out = "AttributeError"

====
